---- MODULE Spec2Model ----
(***************************************************************************)
(* Model of src/src/mcp_python/server.py: a persistent Python session      *)
(* exposed as three tools (execute_python, install_package,                *)
(* list_variables) that share one module-level namespace dictionary.       *)
(*                                                                         *)
(* Text is a sequence of string tokens, an identifier or a package name is *)
(* a sequence of one-character strings, and a dictionary is the sequence   *)
(* of its entries in insertion order.                                      *)
(***************************************************************************)
EXTENDS Integers, Sequences, FiniteSets

VARIABLES
    global_namespace,  \* the shared dict, as a sequence of [k, v] entries
    sys_stdout,        \* what the process-wide sys.stdout points to
    sys_stderr,        \* what the process-wide sys.stderr points to
    last               \* the last tool call: its arguments and its outcome

vars == <<global_namespace, sys_stdout, sys_stderr, last>>

----------------------------------------------------------------------------
(* Bounds of the model *)

\* longest list a session may hold
MaxListLen == 2
\* longest package string submitted to install_package
MaxPkgLen == 2

----------------------------------------------------------------------------
(* Identifiers and values *)

BUILTINS == <<"_", "_", "b", "u", "i", "l", "t", "i", "n", "s", "_", "_">>
X == <<"x">>
Y == <<"y">>
T == <<"_", "t">>

IntV(n) == [ty |-> "int", n |-> n, items |-> <<>>, name |-> <<>>]
ListV(s) == [ty |-> "list", n |-> 0, items |-> s, name |-> <<>>]
ModuleV(nm) == [ty |-> "module", n |-> 0, items |-> <<>>, name |-> nm]
NoneV == [ty |-> "none", n |-> 0, items |-> <<>>, name |-> <<>>]
\* the value of __builtins__ in the server module
BuiltinsV == ModuleV(<<"b", "u", "i", "l", "t", "i", "n", "s">>)

Digits == <<"0", "1", "2", "3", "4", "5", "6", "7", "8", "9">>

RECURSIVE JoinItems(_)
JoinItems(s) ==
    IF s = <<>> THEN <<>>
    ELSE IF Len(s) = 1 THEN <<Digits[s[1] + 1]>>
    ELSE <<Digits[s[1] + 1], ", ">> \o JoinItems(Tail(s))

\* repr(v)
Repr(v) ==
    CASE v.ty = "int" -> <<Digits[v.n + 1]>>
      [] v.ty = "list" -> <<"[">> \o JoinItems(v.items) \o <<"]">>
      [] v.ty = "module" -> <<"<module '">> \o v.name \o <<"'>">>
      [] OTHER -> <<"None">>

----------------------------------------------------------------------------
(* The dict operations the server and the submitted code use *)

Entry(k, v) == [k |-> k, v |-> v]

Has(d, k) == \E i \in 1..Len(d) : d[i].k = k

Get(d, k) == d[CHOOSE i \in 1..Len(d) : d[i].k = k].v

\* d[k] = v: an existing key keeps its position, a new key goes last
Put(d, k, v) ==
    IF Has(d, k)
    THEN [i \in 1..Len(d) |-> IF d[i].k = k THEN Entry(k, v) ELSE d[i]]
    ELSE Append(d, Entry(k, v))

\* del d[k]
Drop(d, k) == SelectSeq(d, LAMBDA e : e.k # k)

Keys(d) == {d[i].k : i \in 1..Len(d)}

\* Faulty variant of WithBuiltins: a run that never re-seeds __builtins__.
WithBuiltins_Never(d) == d

\* exec and eval insert __builtins__ into a globals dict that lacks it
WithBuiltins(d) == IF Has(d, BUILTINS) THEN d ELSE Append(d, Entry(BUILTINS, BuiltinsV))

----------------------------------------------------------------------------
(* Faults *)

NoExc == [type |-> "", msg |-> <<>>]
Exc(t, m) == [type |-> t, msg |-> m]

NameErr(k) == Exc("NameError", <<"name '">> \o k \o <<"' is not defined">>)
AttrErr(v, attr) == Exc("AttributeError", <<"'", v.ty, "' object has no attribute '", attr, "'">>)

\* the classes `except Exception` catches; SystemExit and KeyboardInterrupt
\* derive from BaseException only
ExceptionClasses ==
    {"NameError", "AttributeError", "IndexError", "ValueError", "SyntaxError",
     "ImportError", "FileNotFoundError", "CalledProcessError", "RuntimeError"}

IsException(e) == e.type \in ExceptionClasses

\* traceback.format_exc(): header, (frames), then "Type: message\n"
FormatExc(e) ==
    <<"Traceback (most recent call last):\n">>
        \o (IF e.msg = <<>> THEN <<e.type>> ELSE <<e.type, ": ">> \o e.msg)
        \o <<"\n">>

----------------------------------------------------------------------------
(* Submitted code: a sequence of lines, each one statement *)

Stmt(op, k, v) == [op |-> op, name |-> k, val |-> v]

\* `k = <literal>`
Assign(k, v) == Stmt("assign", k, v)
\* `k`
Name(k) == Stmt("name", k, NoneV)
\* `del k`
Del(k) == Stmt("del", k, NoneV)
\* `k.pop()`
Pop(k) == Stmt("pop", k, NoneV)
\* `k.append(1)`
AppendOne(k) == Stmt("append", k, NoneV)
\* `k.remove(1)`
RemoveOne(k) == Stmt("remove", k, NoneV)
\* `print(1)`
OutWrite == Stmt("print", <<>>, NoneV)
\* `__import__('sys').stderr.write('e')`
ErrWrite == Stmt("errwrite", <<>>, NoneV)
\* `raise <class>`
Raise(t) == Stmt("raise", <<t>>, NoneV)
\* an empty line
Blank == Stmt("blank", <<>>, NoneV)

\* the statement forms that are expressions (eval compiles them)
IsExpression(s) == s.op \in {"name", "pop", "append", "remove", "print", "errwrite"}

\* s with its first occurrence of 1 removed (list.remove on a list that has it)
RECURSIVE RemoveFirst(_)
RemoveFirst(s) ==
    IF s = <<>> THEN <<>>
    ELSE IF s[1] = 1 THEN Tail(s)
    ELSE <<s[1]>> \o RemoveFirst(Tail(s))

\* A running interpreter: the globals dict, the current sys.stdout/sys.stderr
\* targets, the text written to each target, the pending fault and the value
\* of the last expression.
Machine(d, so, se) ==
    [ns |-> d, so |-> so, se |-> se,
     w |-> [console |-> <<>>, stdout_buf |-> <<>>, stderr_buf |-> <<>>],
     exc |-> NoExc, val |-> NoneV]

Fault(m, e) == [m EXCEPT !.exc = e]

\* one statement or expression on machine m
Step(m, s) ==
    CASE s.op = "assign" -> [m EXCEPT !.ns = Put(m.ns, s.name, s.val)]
      [] s.op = "name" ->
            IF Has(m.ns, s.name) THEN [m EXCEPT !.val = Get(m.ns, s.name)]
            ELSE Fault(m, NameErr(s.name))
      [] s.op = "del" ->
            IF Has(m.ns, s.name) THEN [m EXCEPT !.ns = Drop(m.ns, s.name)]
            ELSE Fault(m, NameErr(s.name))
      [] s.op = "pop" ->
            IF ~Has(m.ns, s.name) THEN Fault(m, NameErr(s.name))
            ELSE LET v == Get(m.ns, s.name) IN
                 IF v.ty # "list" THEN Fault(m, AttrErr(v, "pop"))
                 ELSE IF v.items = <<>> THEN Fault(m, Exc("IndexError", <<"pop from empty list">>))
                 ELSE [m EXCEPT !.ns = Put(m.ns, s.name, ListV(SubSeq(v.items, 1, Len(v.items) - 1))),
                                !.val = IntV(v.items[Len(v.items)])]
      [] s.op = "append" ->
            IF ~Has(m.ns, s.name) THEN Fault(m, NameErr(s.name))
            ELSE LET v == Get(m.ns, s.name) IN
                 IF v.ty # "list" THEN Fault(m, AttrErr(v, "append"))
                 ELSE [m EXCEPT !.ns = Put(m.ns, s.name, ListV(Append(v.items, 1))),
                                !.val = NoneV]
      [] s.op = "remove" ->
            IF ~Has(m.ns, s.name) THEN Fault(m, NameErr(s.name))
            ELSE LET v == Get(m.ns, s.name) IN
                 IF v.ty # "list" THEN Fault(m, AttrErr(v, "remove"))
                 ELSE IF \A i \in 1..Len(v.items) : v.items[i] # 1
                      THEN Fault(m, Exc("ValueError", <<"list.remove(x): x not in list">>))
                 ELSE [m EXCEPT !.ns = Put(m.ns, s.name, ListV(RemoveFirst(v.items))),
                                !.val = NoneV]
      [] s.op = "print" -> [m EXCEPT !.w[m.so] = @ \o <<"1", "\n">>, !.val = NoneV]
      [] s.op = "errwrite" -> [m EXCEPT !.w[m.se] = @ \o <<"e">>, !.val = IntV(1)]
      [] s.op = "raise" -> Fault(m, Exc(s.name[1], <<>>))
      [] OTHER -> m

\* the statements of code from line i on, stopping at the first fault
RECURSIVE RunFrom(_, _, _)
RunFrom(m, code, i) ==
    IF i > Len(code) \/ m.exc # NoExc THEN m
    ELSE RunFrom(Step(m, code[i]), code, i + 1)

\* Faulty variant of Exec: the code runs on a copy of the dict, so that its
\* bindings are lost when the call returns (per-call isolation).
Exec_Isolated(m, code) ==
    [RunFrom([m EXCEPT !.ns = WithBuiltins(m.ns)], code, 1) EXCEPT !.ns = m.ns]

\* exec(code, d): __builtins__ is inserted first, then the statements run
Exec(m, code) == RunFrom([m EXCEPT !.ns = WithBuiltins(m.ns)], code, 1)

\* eval(line, d): __builtins__ is inserted, then the line is compiled as an
\* expression (a statement is a SyntaxError) and evaluated
Eval(m, line) ==
    LET m0 == [m EXCEPT !.ns = WithBuiltins(m.ns)] IN
    IF IsExpression(line) THEN Step(m0, line)
    ELSE Fault(m0, Exc("SyntaxError", <<"invalid syntax">>))

\* code.strip(): leading and trailing blank lines go
RECURSIVE Strip(_)
Strip(code) ==
    IF code = <<>> THEN <<>>
    ELSE IF code[1] = Blank THEN Strip(Tail(code))
    ELSE IF code[Len(code)] = Blank THEN Strip(SubSeq(code, 1, Len(code) - 1))
    ELSE code

\* code.strip().split('\n')[-1]; "".split('\n') is ['']
LastLine(code) ==
    LET s == Strip(code) IN IF s = <<>> THEN Blank ELSE s[Len(s)]

----------------------------------------------------------------------------
(* execute_python *)

ResetText == <<"Python session reset. All variables cleared.">>
NoOutputText == <<"Code executed successfully (no output)">>

\* f"Error executing code:\n{traceback.format_exc()}"
ErrorReport(e) == <<"Error executing code:\n">> \o FormatExc(e)

\* Faulty variant of SwallowedFaults: a fallback that catches SyntaxError only.
SwallowedFaults_SyntaxOnly == {"SyntaxError"}

\* the faults the fallback's `except (SyntaxError, ValueError, NameError)` catches
SwallowedFaults == {"SyntaxError", "ValueError", "NameError"}

\* Faulty variant of RedirectExit: a redirection undone after the body only
\* when the body returns (no try/finally).
RedirectExit_NoFinally(saved, current, exc) == IF exc = NoExc THEN saved ELSE current

\* redirect_stdout/redirect_stderr __exit__: the saved target is put back,
\* whether or not the body raised
RedirectExit(saved, current, exc) == saved

\* What one tool call leaves behind: the namespace, the stream targets, the
\* text result, the fault that escaped the call (NoExc if none), and a record
\* of what happened on the way.
Outcome(d, so, se, text, raised) ==
    [ns |-> d, so |-> so, se |-> se, text |-> text, raised |-> raised,
     ran |-> FALSE, runExc |-> NoExc, fellBack |-> FALSE, evalExc |-> NoExc,
     console |-> <<>>, subprocess |-> FALSE]

\* the result of a fault e reaching `except Exception` of a handler
Caught(o, e) ==
    IF IsException(e) THEN [o EXCEPT !.text = ErrorReport(e)]
    ELSE [o EXCEPT !.raised = e]

\* Faulty variant of ResetNamespace: the clear() is forgotten.
ResetNamespace_NoClear(d) == Put(d, BUILTINS, BuiltinsV)

\* global_namespace.clear(); global_namespace["__builtins__"] = __builtins__
ResetNamespace(d) == Put(<<>>, BUILTINS, BuiltinsV)

ExecutePython(d, so, se, code, reset) ==
    IF reset
    THEN Outcome(ResetNamespace(d), so, se, ResetText, NoExc)
    ELSE
    LET m1 == Exec(Machine(d, "stdout_buf", "stderr_buf"), code)
        se1 == RedirectExit(se, m1.se, m1.exc)
        so1 == RedirectExit(so, m1.so, m1.exc)
        ran == [Outcome(m1.ns, so1, se1, <<>>, NoExc) EXCEPT
                    !.ran = TRUE, !.runExc = m1.exc, !.console = m1.w.console]
        output == m1.w.stdout_buf
        errors == m1.w.stderr_buf
        result == (IF output # <<>> THEN <<"Output:\n">> \o output ELSE <<>>)
                    \o (IF errors # <<>> THEN <<"\nErrors:\n">> \o errors ELSE <<>>)
    IN  IF m1.exc # NoExc THEN Caught(ran, m1.exc)
        ELSE IF output # <<>> \/ errors # <<>> THEN [ran EXCEPT !.text = result]
        ELSE
        LET m2 == Eval([m1 EXCEPT !.so = so1, !.se = se1], LastLine(code))
            fb == [ran EXCEPT !.ns = m2.ns, !.fellBack = TRUE, !.evalExc = m2.exc,
                              !.console = m2.w.console]
        IN  IF m2.exc = NoExc THEN [fb EXCEPT !.text = <<"Result: ">> \o Repr(m2.val)]
            ELSE IF m2.exc.type \in SwallowedFaults THEN [fb EXCEPT !.text = NoOutputText]
            ELSE Caught(fb, m2.exc)

----------------------------------------------------------------------------
(* install_package *)

Letters == {"x"}
DigitChars == {"1"}
Alnum == Letters \cup DigitChars

\* re.match("^[A-Za-z0-9][A-Za-z0-9._-]*$", package): `$` matches at the end
\* of the string and also just before a newline that ends the string
ReMatch(package) ==
    \E n \in 1..Len(package) :
        /\ package[1] \in Alnum
        /\ \A i \in 2..n : package[i] \in Alnum \cup {".", "_", "-"}
        /\ \/ n = Len(package)
           \/ n = Len(package) - 1 /\ package[Len(package)] = "\n"

\* s.split(sep)[0]
RECURSIVE SplitFirst(_, _)
SplitFirst(s, sep) ==
    IF s = <<>> \/ s[1] = sep THEN <<>>
    ELSE <<s[1]>> \o SplitFirst(Tail(s), sep)

\* whether `import <name>` compiles: a dotted sequence of identifiers, with
\* at most a newline after it
CompilesAsImport(name) ==
    LET n == IF name # <<>> /\ name[Len(name)] = "\n"
             THEN SubSeq(name, 1, Len(name) - 1) ELSE name
    IN  /\ n # <<>>
        /\ n[Len(n)] # "."
        /\ \A i \in 1..Len(n) :
              /\ n[i] \in Alnum \cup {"_", "."}
              /\ (i = 1 \/ n[i - 1] = ".") => n[i] \notin DigitChars \cup {"."}

\* the name `import a.b.c` binds: a
TopName(name) == SplitFirst(SplitFirst(name, "\n"), ".")

\* subprocess.run(["uv", "pip", "install", package], check=True): uv is the
\* environment's answer: "ok" (exit 0), "nonzero" (CalledProcessError, raised
\* by check=True) or "nolaunch" (no uv executable: FileNotFoundError)
SubprocessRun(uv) ==
    CASE uv = "ok" -> [exc |-> NoExc, returncode |-> 0]
      [] uv = "nonzero" -> [exc |-> Exc("CalledProcessError", <<"<uv stderr>">>), returncode |-> 1]
      [] OTHER -> [exc |-> Exc("FileNotFoundError", <<"No such file or directory: 'uv'">>),
                   returncode |-> 0]

\* exec(f"import {name}", d): imp is the environment's answer for a module
\* name that compiles: "ok" (the module imports) or "missing" (ImportError)
ExecImport(d, name, imp) ==
    LET d0 == WithBuiltins(d) IN
    IF ~CompilesAsImport(name) THEN [ns |-> d0, exc |-> Exc("SyntaxError", <<"invalid syntax">>)]
    ELSE IF imp = "ok" THEN [ns |-> Put(d0, TopName(name), ModuleV(TopName(name))), exc |-> NoExc]
    ELSE [ns |-> d0, exc |-> Exc("ImportError", <<"No module named '">> \o TopName(name) \o <<"'">>)]

InstallPackage(d, so, se, package, uv, imp) ==
    IF ~ReMatch(package)
    THEN Outcome(d, so, se, <<"Invalid package name: ">> \o package, NoExc)
    ELSE
    LET p == SubprocessRun(uv)
        o == [Outcome(d, so, se, <<>>, NoExc) EXCEPT !.subprocess = TRUE]
    IN  IF p.exc.type = "CalledProcessError"
        THEN [o EXCEPT !.text = <<"Failed to install package:\n">> \o p.exc.msg]
        ELSE IF p.exc # NoExc THEN [o EXCEPT !.raised = p.exc]
        ELSE IF p.returncode # 0
        THEN [o EXCEPT !.text = <<"Failed to install package: ", "<uv stderr>">>]
        ELSE
        LET r == ExecImport(d, SplitFirst(package, "["), imp) IN
        IF r.exc = NoExc
        THEN [o EXCEPT !.ns = r.ns,
                       !.text = <<"Successfully installed and imported ">> \o package]
        ELSE IF r.exc.type = "ImportError"
        THEN [o EXCEPT !.ns = r.ns,
                       !.text = <<"Package installed but import failed: ">> \o r.exc.msg]
        ELSE [o EXCEPT !.ns = r.ns, !.raised = r.exc]

----------------------------------------------------------------------------
(* list_variables *)

NoVariablesText == <<"No variables in current session.">>

\* Faulty variant of StartsWithUnderscore: private names are not recognised.
StartsWithUnderscore_Never(k) == FALSE

\* k.startswith('_')
StartsWithUnderscore(k) == k # <<>> /\ k[1] = "_"

\* the dict comprehension: the listed entries, each value as its repr
VarsDict(d) ==
    LET kept == SelectSeq(d, LAMBDA e : ~StartsWithUnderscore(e.k) /\ e.k # BUILTINS)
    IN  [i \in 1..Len(kept) |-> Entry(kept[i].k, Repr(kept[i].v))]

\* "\n".join(f"{k} = {v}" for k, v in vars_dict.items())
RECURSIVE JoinLines(_)
JoinLines(vd) ==
    IF vd = <<>> THEN <<>>
    ELSE vd[1].k \o <<" = ">> \o vd[1].v
            \o (IF Len(vd) = 1 THEN <<>> ELSE <<"\n">> \o JoinLines(Tail(vd)))

ListVariables(d, so, se) ==
    LET vars_dict == VarsDict(d) IN
    IF vars_dict = <<>> THEN Outcome(d, so, se, NoVariablesText, NoExc)
    ELSE Outcome(d, so, se, <<"Current session variables:\n\n">> \o JoinLines(vars_dict), NoExc)

----------------------------------------------------------------------------
(* The calls a client makes *)

\* the lines the submitted programs are built from
Lines ==
    {Assign(X, IntV(1)), Assign(X, IntV(2)), Assign(X, ListV(<<>>)), Assign(X, ListV(<<1>>)),
     Assign(Y, IntV(1)), Assign(T, IntV(1)),
     Name(X), Del(X), Del(BUILTINS), Pop(X), AppendOne(X), RemoveOne(X),
     OutWrite, ErrWrite,
     Raise("ValueError"), Raise("SystemExit"), Raise("KeyboardInterrupt"), Blank}

\* two-line programs: output or a fault after an earlier effect, output on
\* both streams, a trailing empty line
TwoLiners ==
    {<<OutWrite, Raise("ValueError")>>, <<ErrWrite, Raise("SystemExit")>>,
     <<OutWrite, ErrWrite>>, <<Del(BUILTINS), OutWrite>>,
     <<Assign(X, IntV(1)), Raise("ValueError")>>,
     <<Assign(Y, IntV(1)), Name(X)>>,
     <<Name(X), Blank>>, <<AppendOne(X), Blank>>}

Programs == {<<s>> : s \in Lines} \cup TwoLiners

\* the code sent along with reset=true
ResetPrograms == {<<Blank>>, <<Assign(X, IntV(1))>>, <<Raise("SystemExit")>>}

PkgChars == {"x", "-", " ", "\n"}

RECURSIVE StringsUpTo(_)
StringsUpTo(n) ==
    IF n = 0 THEN {<<>>}
    ELSE LET shorter == StringsUpTo(n - 1)
         IN  shorter \cup {Append(s, c) : s \in shorter, c \in PkgChars}

Packages == StringsUpTo(MaxPkgLen)

\* the session stays within the list bound
WithinBounds(d) == \A i \in 1..Len(d) : Len(d[i].v.items) <= MaxListLen

UserKeys(d) == Keys(d) \ {BUILTINS}

NoCall ==
    [op |-> "", code |-> <<>>, reset |-> FALSE, package |-> <<>>, uv |-> "", imp |-> "",
     text |-> <<>>, raised |-> NoExc, ran |-> FALSE, runExc |-> NoExc,
     fellBack |-> FALSE, evalExc |-> NoExc, console |-> <<>>, subprocess |-> FALSE,
     cleared |-> {}, prevReset |-> FALSE, prevCleared |-> {}]

\* the record of a call with outcome o; prevReset and prevCleared tell whether
\* the call before it was a reset, and the names that reset dropped
Called(op, o) ==
    [NoCall EXCEPT !.op = op, !.text = o.text, !.raised = o.raised, !.ran = o.ran,
                   !.runExc = o.runExc, !.fellBack = o.fellBack, !.evalExc = o.evalExc,
                   !.console = o.console, !.subprocess = o.subprocess,
                   !.prevReset = (last.op = "execute_python" /\ last.reset),
                   !.prevCleared = last.cleared]

Init ==
    /\ global_namespace = <<Entry(BUILTINS, BuiltinsV)>>
    /\ sys_stdout = "console"
    /\ sys_stderr = "console"
    /\ last = NoCall

Leave(o) ==
    /\ WithinBounds(o.ns)
    /\ global_namespace' = o.ns
    /\ sys_stdout' = o.so
    /\ sys_stderr' = o.se

execute_python(code, reset) ==
    LET o == ExecutePython(global_namespace, sys_stdout, sys_stderr, code, reset) IN
    /\ Leave(o)
    /\ last' = [Called("execute_python", o) EXCEPT
                    !.code = code, !.reset = reset,
                    !.cleared = IF reset THEN UserKeys(global_namespace) ELSE {}]

install_package(package, uv, imp) ==
    LET o == InstallPackage(global_namespace, sys_stdout, sys_stderr, package, uv, imp) IN
    /\ Leave(o)
    /\ last' = [Called("install_package", o) EXCEPT
                    !.package = package,
                    !.uv = uv, !.imp = imp]

list_variables ==
    LET o == ListVariables(global_namespace, sys_stdout, sys_stderr) IN
    /\ Leave(o)
    /\ last' = Called("list_variables", o)

Run == \E code \in Programs : execute_python(code, FALSE)

Reset == \E code \in ResetPrograms : execute_python(code, TRUE)

\* the modules the environment can import
Importable == {X}

\* What the environment can answer to a call: nothing when the package is
\* rejected before the subprocess; otherwise how uv ends and, if it succeeds,
\* whether the module imports.
Answers(package) ==
    IF ~ReMatch(package) THEN {<<"", "">>}
    ELSE {<<"nonzero", "">>, <<"nolaunch", "">>, <<"ok", "missing">>}
            \cup (IF TopName(SplitFirst(package, "[")) \in Importable
                  THEN {<<"ok", "ok">>} ELSE {})

Install ==
    \E package \in Packages : \E a \in Answers(package) :
        install_package(package, a[1], a[2])

Next == Run \/ Reset \/ Install \/ list_variables

Spec == Init /\ [][Next]_vars

----------------------------------------------------------------------------
(* Properties *)

UserNames == {X, Y, T}

IsRun(c) == c.op = "execute_python" /\ ~c.reset
IsReset(c) == c.op = "execute_python" /\ c.reset

\* a program that only binds variables to literals or reads a name
SimpleProgram(code) == \A i \in 1..Len(code) : code[i].op \in {"assign", "name", "blank"}

Rebinds(code, k) == \E i \in 1..Len(code) : code[i].op = "assign" /\ code[i].name = k

\* C1. Statefulness. Over calls with reset=false that only bind simple
\* variables: a call that starts with `k = v` and does not rebind k leaves k
\* bound to v; a call that does not rebind k keeps k's binding; and a call
\* whose code is just `k`, with k bound to v, returns "Result: <repr of v>".
\* By induction a binding is visible to every later call until it is rebound.
C1_Statefulness ==
    [][\A k \in UserNames :
         (IsRun(last') /\ SimpleProgram(last'.code)) =>
            /\ (last'.code[1].op = "assign" /\ last'.code[1].name = k
                    /\ ~Rebinds(Tail(last'.code), k))
                 => (Has(global_namespace', k)
                        /\ Get(global_namespace', k) = last'.code[1].val)
            /\ (Has(global_namespace, k) /\ ~Rebinds(last'.code, k))
                 => (Has(global_namespace', k)
                        /\ Get(global_namespace', k) = Get(global_namespace, k))
            /\ (last'.code = <<Name(k)>> /\ Has(global_namespace, k))
                 => last'.text = <<"Result: ">> \o Repr(Get(global_namespace, k))
      ]_vars

\* C1 witness: `x` returned the 2 that an earlier call bound.
C1_Witness ==
    /\ IsRun(last) /\ last.code = <<Name(X)>>
    /\ last.text = <<"Result: ", "2">>
    /\ Has(global_namespace, X) /\ Get(global_namespace, X) = IntV(2)

\* C2. Reset wins: a call with reset=true does not run its code, leaves the
\* namespace holding exactly __builtins__ and returns the confirmation; the
\* call after it, if its code is just a name, returns the fault report of an
\* undefined name.
C2_ResetWins ==
    /\ IsReset(last) =>
          /\ global_namespace = <<Entry(BUILTINS, BuiltinsV)>>
          /\ last.text = ResetText
          /\ ~last.ran
          /\ last.raised = NoExc
    /\ \A k \in UserNames :
          (IsRun(last) /\ last.prevReset /\ last.code = <<Name(k)>>)
             => /\ last.text = ErrorReport(NameErr(k))
                /\ last.runExc.type = "NameError"

\* C2 witness: x was bound, a reset dropped it, and `x` then faulted.
C2_Witness ==
    /\ IsRun(last) /\ last.code = <<Name(X)>>
    /\ last.prevReset /\ X \in last.prevCleared
    /\ last.text = ErrorReport(NameErr(X))

\* whether a listing has a line for key k
ListsKey(text, k) ==
    \E i \in 2..Len(text) :
        /\ text[i - 1] \in {"Current session variables:\n\n", "\n"}
        /\ i + Len(k) <= Len(text)
        /\ SubSeq(text, i, i + Len(k) - 1) = k
        /\ text[i + Len(k)] = " = "

DeletesBuiltins(c) == IsRun(c) /\ \E i \in 1..Len(c.code) : c.code[i] = Del(BUILTINS)

\* C3 as claimed: the namespace always contains __builtins__, and no
\* list_variables result includes it.
C3_BuiltinsAlways ==
    /\ Has(global_namespace, BUILTINS)
    /\ last.op = "list_variables" => ~ListsKey(last.text, BUILTINS)

\* C3 amended: __builtins__ is present at the start, after every reset, after
\* every run whose code does not itself delete it, and after every install
\* whose installer succeeded; every call other than a run that deletes it
\* keeps it; and no list_variables result includes it.
C3_BuiltinsSeeded ==
    /\ Has(global_namespace, BUILTINS)
    /\ [][/\ (last'.op = "execute_python" /\ ~DeletesBuiltins(last'))
                => Has(global_namespace', BUILTINS)
          /\ (last'.op = "install_package" /\ last'.uv = "ok")
                => Has(global_namespace', BUILTINS)
          /\ (Has(global_namespace, BUILTINS) /\ ~DeletesBuiltins(last'))
                => Has(global_namespace', BUILTINS)
          /\ last'.op = "list_variables" => ~ListsKey(last'.text, BUILTINS)
         ]_vars

\* C3 witness: a run found __builtins__ deleted and put it back, behind a
\* user variable.
C3_Witness ==
    /\ IsRun(last) /\ ~DeletesBuiltins(last)
    /\ Len(global_namespace) > 1
    /\ global_namespace[1].k # BUILTINS
    /\ global_namespace[Len(global_namespace)].k = BUILTINS

\* the package strings the pattern is meant to accept: an alphanumeric
\* character followed only by alphanumerics, dot, underscore or hyphen
WellFormed(package) ==
    /\ package # <<>>
    /\ package[1] \in Alnum
    /\ \A i \in 2..Len(package) : package[i] \in Alnum \cup {".", "_", "-"}

\* C4. Every package string that is not well formed is answered with the
\* invalid-package-name text, without the subprocess and with the namespace
\* unchanged.
C4_InvalidRejected ==
    [][(last'.op = "install_package" /\ ~WellFormed(last'.package)) =>
          /\ last'.text = <<"Invalid package name: ">> \o last'.package
          /\ ~last'.subprocess
          /\ global_namespace' = global_namespace
      ]_vars

\* C5. Whatever fault the submitted code raises while running, the call
\* returns the failure report with the fault trace and nothing escapes it.
C5_FaultsNeverEscape ==
    (IsRun(last) /\ last.runExc # NoExc) =>
        /\ last.raised = NoExc
        /\ last.text = ErrorReport(last.runExc)

\* C6. A package that passes validation gets a text result on every path: a
\* failure text when uv exits non-zero or cannot be launched, the
\* installed-but-import-failed text when the bind fails, the success text
\* otherwise; no fault escapes.
C6_InstallNeverEscapes ==
    (last.op = "install_package" /\ last.subprocess) =>
        /\ last.raised = NoExc
        /\ last.uv \in {"nonzero", "nolaunch"}
              => last.text[1] \in {"Failed to install package:\n", "Failed to install package: "}
        /\ (last.uv = "ok" /\ Has(global_namespace, TopName(last.package))
                /\ Get(global_namespace, TopName(last.package)).ty = "module")
              => last.text = <<"Successfully installed and imported ">> \o last.package
        /\ (last.uv = "ok" /\ ~Has(global_namespace, TopName(last.package)))
              => last.text[1] = "Package installed but import failed: "

\* C7 as claimed: whenever the fallback's re-evaluation of the final line
\* fails, the result is the no-output message.
C7_FallbackSwallowed ==
    (IsRun(last) /\ last.fellBack /\ last.evalExc # NoExc) =>
        /\ last.text = NoOutputText
        /\ last.raised = NoExc

\* C7 amended: when the re-evaluation fails with a syntax, value or name
\* fault the result is the no-output message; a fault of any other
\* Exception class raised by the re-evaluation is returned as a fault report.
C7_NarrowSwallow ==
    (IsRun(last) /\ last.fellBack /\ last.evalExc # NoExc /\ IsException(last.evalExc)) =>
        /\ last.raised = NoExc
        /\ last.runExc = NoExc
        /\ IF last.evalExc.type \in {"SyntaxError", "ValueError", "NameError"}
           THEN last.text = NoOutputText
           ELSE last.text = ErrorReport(last.evalExc)

\* C7 witness: `x.remove(1)` ran, its re-evaluation raised ValueError, and the
\* call answered with the no-output message.
C7_Witness ==
    /\ IsRun(last) /\ last.fellBack
    /\ last.code = <<RemoveOne(X)>>
    /\ last.evalExc.type = "ValueError"
    /\ last.text = NoOutputText

\* the positions of the entries list_variables shows
Visible(d) ==
    {i \in 1..Len(d) : d[i].k # BUILTINS /\ d[i].k[1] # "_"}

\* the lines for the visible entries from position i on, in dict order
RECURSIVE ListingFrom(_, _)
ListingFrom(d, i) ==
    IF i > Len(d) THEN <<>>
    ELSE IF i \notin Visible(d) THEN ListingFrom(d, i + 1)
    ELSE d[i].k \o <<" = ">> \o Repr(d[i].v)
            \o (IF \E j \in Visible(d) : j > i THEN <<"\n">> ELSE <<>>)
            \o ListingFrom(d, i + 1)

CountOf(text, tok) == Cardinality({i \in 1..Len(text) : text[i] = tok})

\* C8. list_variables leaves the namespace unchanged, answers with the
\* no-variables message exactly when no key other than __builtins__ and
\* underscore-prefixed keys is bound, and otherwise with one `key = repr`
\* line per such key, in insertion order, and nothing else.
C8_ListVariables ==
    [][last'.op = "list_variables" =>
          /\ global_namespace' = global_namespace
          /\ last'.raised = NoExc
          /\ (last'.text = NoVariablesText) <=> (Visible(global_namespace) = {})
          /\ Visible(global_namespace) # {} =>
                /\ last'.text = <<"Current session variables:\n\n">>
                                    \o ListingFrom(global_namespace, 1)
                /\ CountOf(last'.text, " = ") = Cardinality(Visible(global_namespace))
                /\ CountOf(last'.text, "\n") = Cardinality(Visible(global_namespace)) - 1
      ]_vars

\* C8 witness: with y bound before x and a private _t, the listing has the
\* two lines for y and x, in that order.
C8_Witness ==
    /\ last.op = "list_variables"
    /\ Has(global_namespace, T)
    /\ last.text = <<"Current session variables:\n\n", "y", " = ", "1", "\n", "x", " = ", "2">>

\* C9. After every call both process-wide streams point where they pointed
\* before it, on the success path and on the fault path alike, and what the
\* submitted code wrote went to the call's buffers, not to the real streams.
C9_StreamsRestored ==
    /\ sys_stdout = "console"
    /\ sys_stderr = "console"
    /\ last.console = <<>>
    /\ (IsRun(last) /\ last.runExc = NoExc /\ ~last.fellBack) => last.text[1] \in {"Output:\n", "\nErrors:\n"}

\* C9 witness: code that printed and then raised; the streams are back.
C9_Witness ==
    /\ IsRun(last) /\ last.code = <<OutWrite, Raise("ValueError")>>
    /\ last.runExc.type = "ValueError"
    /\ sys_stdout = "console" /\ sys_stderr = "console"

\* C10. Every run leaves the user's bindings as one execution of the code
\* leaves them.
C10_ExactlyOnce ==
    [][IsRun(last') =>
          Drop(global_namespace', BUILTINS)
            = Drop(Exec(Machine(global_namespace, "stdout_buf", "stderr_buf"), last'.code).ns,
                   BUILTINS)
      ]_vars

====
